---- MODULE Spec2Model ----
(***************************************************************************)
(* Model of src/src/TFWRIntelliSense.tsx: the catalog parser, the          *)
(* per-document symbol index, the debounced index manager of               *)
(* setupTFWRIntelliSense and the completion, hover and signature help      *)
(* providers.                                                              *)
(*                                                                         *)
(* Text is modelled as a sequence of tokens.  A token is a maximal run of  *)
(* word characters (an identifier, or a run that starts with a digit), a   *)
(* quoted string literal, or a single punctuation / white-space character. *)
(* The regular expressions of the source are translated to matchers over   *)
(* such token sequences.                                                   *)
(***************************************************************************)
EXTENDS Integers, Sequences, FiniteSets, TLC

(***************************************************************************)
(* Lexical layer                                                           *)
(***************************************************************************)

\* Word tokens matching [A-Za-z_][A-Za-z0-9_]* that occur in the model.
Identifiers ==
  { "def", "list", "dict", "set", "str", "x", "y", "f", "g", "a", "b",
    "obj", "Vector", "VECTOR", "vector", "length", "Length", "bogus",
    "harvest", "Harvest", "North", "north", "append", "remove",
    "insert", "pop", "add", "c", "d", "z", "Pop", "toString", "class" }

\* Runs of word characters that are not identifiers (they start with a digit).
NumberWords == { "1", "9z" }

\* Quoted string literals "[^"]*" and '[^']*', each one token.
StringLits == { "\"s\"", "'s'" }

IsIdent(t) == t \in Identifiers
IsWord(t) == t \in Identifiers \cup NumberWords
IsWs(t) == t \in { " ", "\n", "\t" }

\* The UTF-16 code units of the strings of the model.
Spell(t) ==
  CASE t = "def" -> << 100, 101, 102 >>
    [] t = "list" -> << 108, 105, 115, 116 >>
    [] t = "dict" -> << 100, 105, 99, 116 >>
    [] t = "set" -> << 115, 101, 116 >>
    [] t = "str" -> << 115, 116, 114 >>
    [] t = "x" -> << 120 >>
    [] t = "y" -> << 121 >>
    [] t = "f" -> << 102 >>
    [] t = "g" -> << 103 >>
    [] t = "a" -> << 97 >>
    [] t = "b" -> << 98 >>
    [] t = "obj" -> << 111, 98, 106 >>
    [] t = "Vector" -> << 86, 101, 99, 116, 111, 114 >>
    [] t = "VECTOR" -> << 86, 69, 67, 84, 79, 82 >>
    [] t = "vector" -> << 118, 101, 99, 116, 111, 114 >>
    [] t = "length" -> << 108, 101, 110, 103, 116, 104 >>
    [] t = "Length" -> << 76, 101, 110, 103, 116, 104 >>
    [] t = "bogus" -> << 98, 111, 103, 117, 115 >>
    [] t = "harvest" -> << 104, 97, 114, 118, 101, 115, 116 >>
    [] t = "Harvest" -> << 72, 97, 114, 118, 101, 115, 116 >>
    [] t = "North" -> << 78, 111, 114, 116, 104 >>
    [] t = "north" -> << 110, 111, 114, 116, 104 >>
    [] t = "append" -> << 97, 112, 112, 101, 110, 100 >>
    [] t = "remove" -> << 114, 101, 109, 111, 118, 101 >>
    [] t = "insert" -> << 105, 110, 115, 101, 114, 116 >>
    [] t = "pop" -> << 112, 111, 112 >>
    [] t = "add" -> << 97, 100, 100 >>
    [] t = "c" -> << 99 >>
    [] t = "d" -> << 100 >>
    [] t = "z" -> << 122 >>
    [] t = "Pop" -> << 80, 111, 112 >>
    [] t = "class" -> << 99, 108, 97, 115, 115 >>
    [] t = "\t" -> << 9 >>
    [] t = "toString" -> << 116, 111, 83, 116, 114, 105, 110, 103 >>
    [] t = "1" -> << 49 >>
    [] t = "9z" -> << 57, 122 >>
    [] t = "\"s\"" -> << 34, 115, 34 >>
    [] t = "'s'" -> << 39, 115, 39 >>
    [] t = " " -> << 32 >>
    [] t = "\n" -> << 10 >>
    [] t = "." -> << 46 >>
    [] t = "," -> << 44 >>
    [] t = "(" -> << 40 >>
    [] t = ")" -> << 41 >>
    [] t = ":" -> << 58 >>
    [] t = "=" -> << 61 >>
    [] t = "[" -> << 91 >>
    [] t = "]" -> << 93 >>
    [] t = "{" -> << 123 >>
    [] t = "}" -> << 125 >>
    [] t = "_" -> << 95 >>
    [] t = "0" -> << 48 >>
    [] t = "1a" -> << 49, 97 >>
    [] t = "2" -> << 50 >>
    [] t = "3" -> << 51 >>

\* String.prototype.toLowerCase, code unit by code unit: A-Z become a-z.
toLowerCase(t) ==
  [i \in 1..Len(Spell(t)) |->
     IF Spell(t)[i] >= 65 /\ Spell(t)[i] <= 90 THEN Spell(t)[i] + 32 ELSE Spell(t)[i]]

\* String.prototype.length
StrLen(t) == Len(Spell(t))

RECURSIVE Join(_)
\* Array.prototype.join("") of the tokens: the text they spell.
Join(toks) == IF toks = << >> THEN "" ELSE Head(toks) \o Join(Tail(toks))

RECURSIVE SkipWs(_, _)
\* \s* from position i: the first position at or after i holding no white space.
SkipWs(s, i) == IF i <= Len(s) /\ IsWs(s[i]) THEN SkipWs(s, i + 1) ELSE i

RECURSIVE FirstOf(_, _, _)
\* [^c]*c from position i: the position of the first token c, 0 when there is none.
FirstOf(s, i, c) ==
  IF i > Len(s) THEN 0 ELSE IF s[i] = c THEN i ELSE FirstOf(s, i + 1, c)

\* ^ under the m flag.
AtLineStart(s, i) == i = 1 \/ (i > 1 /\ i <= Len(s) + 1 /\ s[i - 1] = "\n")

\* \s*$ under the m flag from position i: the position after the match (greedy
\* \s*, backtracking to the last line end), 0 when the rest of the line holds
\* something else than white space.
EolEnd(s, i) ==
  LET j == SkipWs(s, i)
      nls == { p \in i..(j - 1) : s[p] = "\n" }
  IN IF j > Len(s) THEN Len(s) + 1
     ELSE IF nls = {} THEN 0
     ELSE CHOOSE p \in nls : \A q \in nls : q <= p

\* String.prototype.trim on a token sequence.
RECURSIVE TrimEnd(_)
TrimEnd(toks) ==
  IF toks # << >> /\ IsWs(toks[Len(toks)])
  THEN TrimEnd(SubSeq(toks, 1, Len(toks) - 1)) ELSE toks

Trim(toks) == LET e == TrimEnd(toks) IN SubSeq(e, SkipWs(e, 1), Len(e))

RECURSIVE SplitComma(_)
\* String.prototype.split(",") followed by map(trim) and spelled out.
SplitComma(toks) ==
  LET c == FirstOf(toks, 1, ",")
  IN IF c = 0 THEN << Join(Trim(toks)) >>
     ELSE << Join(Trim(SubSeq(toks, 1, c - 1))) >>
          \o SplitComma(SubSeq(toks, c + 1, Len(toks)))

(***************************************************************************)
(* buildSymbolIndex                                                        *)
(***************************************************************************)

CoreTypeNames == { "list", "dict", "set", "str" }

NoMatch == [ok |-> FALSE, name |-> "", type |-> "", raw |-> << >>, next |-> 0]

\* /^def\s+([A-Za-z_][A-Za-z0-9_]*)\s*\(([^)]*)\)\s*:/gm tried at position i.
MatchDef(s, i) ==
  IF ~(AtLineStart(s, i) /\ i + 1 <= Len(s) /\ s[i] = "def" /\ IsWs(s[i + 1]))
  THEN NoMatch
  ELSE LET n == SkipWs(s, i + 1)
           o == SkipWs(s, n + 1)
           c == FirstOf(s, o + 1, ")")
           d == SkipWs(s, c + 1)
       IN IF n <= Len(s) /\ IsIdent(s[n]) /\ o <= Len(s) /\ s[o] = "("
             /\ c # 0 /\ d <= Len(s) /\ s[d] = ":"
          THEN [ok |-> TRUE, name |-> s[n], type |-> "",
                raw |-> SubSeq(s, o + 1, c - 1), next |-> d + 1]
          ELSE NoMatch

\* /^([A-Za-z_][A-Za-z0-9_]*)\s*:\s*(list|dict|set|str)\b/gm tried at position i.
MatchAnnotation(s, i) ==
  IF ~(AtLineStart(s, i) /\ i <= Len(s) /\ IsIdent(s[i])) THEN NoMatch
  ELSE LET j == SkipWs(s, i + 1)
           k == SkipWs(s, j + 1)
       IN IF j <= Len(s) /\ s[j] = ":" /\ k <= Len(s) /\ s[k] \in CoreTypeNames
          THEN [ok |-> TRUE, name |-> s[i], type |-> s[k], raw |-> << >>,
                next |-> k + 1]
          ELSE NoMatch

\* The right-hand sides of the assignment patterns, tried at position k (the
\* first token after "=\s*"): the position after the match, 0 for no match.
MatchValue(pat, s, k) ==
  IF k > Len(s) THEN 0
  ELSE CASE pat = "listEmpty" ->
              LET c == SkipWs(s, k + 1)
              IN IF s[k] = "[" /\ c <= Len(s) /\ s[c] = "]"
                 THEN EolEnd(s, c + 1) ELSE 0
         [] pat = "listLit" ->
              LET c == FirstOf(s, k + 1, "]")
              IN IF s[k] = "[" /\ c # 0 THEN EolEnd(s, c + 1) ELSE 0
         [] pat = "dictEmpty" ->
              LET c == SkipWs(s, k + 1)
              IN IF s[k] = "{" /\ c <= Len(s) /\ s[c] = "}"
                 THEN EolEnd(s, c + 1) ELSE 0
         [] pat = "dictLit" ->
              LET c == FirstOf(s, k + 1, "}")
              IN IF s[k] = "{" /\ c # 0 /\ \E p \in (k + 1)..(c - 1) : s[p] = ":"
                 THEN EolEnd(s, c + 1) ELSE 0
         [] pat = "strLit" ->
              IF s[k] \in StringLits THEN EolEnd(s, k + 1) ELSE 0
         [] pat \in { "listCall", "dictCall", "setCall", "strCall" } ->
              LET callee == CASE pat = "listCall" -> "list"
                              [] pat = "dictCall" -> "dict"
                              [] pat = "setCall" -> "set"
                              [] OTHER -> "str"
                  c == SkipWs(s, k + 1)
              IN IF s[k] = callee /\ c <= Len(s) /\ s[c] = "(" THEN c + 1 ELSE 0
         [] OTHER -> 0

\* /^([A-Za-z_][A-Za-z0-9_]*)\s*=\s*<pat>/gm tried at position i.
MatchAssign(pat, s, i) ==
  IF ~(AtLineStart(s, i) /\ i <= Len(s) /\ IsIdent(s[i])) THEN NoMatch
  ELSE LET j == SkipWs(s, i + 1)
           k == SkipWs(s, j + 1)
           e == MatchValue(pat, s, k)
       IN IF j <= Len(s) /\ s[j] = "=" /\ e # 0
          THEN [ok |-> TRUE, name |-> s[i], type |-> "", raw |-> << >>, next |-> e]
          ELSE NoMatch

MatchAt(re, s, i) ==
  CASE re = "def" -> MatchDef(s, i)
    [] re = "annotation" -> MatchAnnotation(s, i)
    [] OTHER -> MatchAssign(re, s, i)

RECURSIVE ExecAll(_, _, _)
\* while ((m = re.exec(text)) !== null): the matches of a /gm expression in
\* text order, each search resuming at the previous match's lastIndex.
ExecAll(re, s, i) ==
  IF i > Len(s) THEN << >>
  ELSE LET m == MatchAt(re, s, i)
       IN IF m.ok THEN << m >> \o ExecAll(re, s, m.next)
          ELSE ExecAll(re, s, i + 1)

\* vars[name] = t on a Record<string, CoreType>.
SetVar(vars, name, t) == (name :> t) @@ vars

\* functions[name] = info on a record whose keys keep their insertion order.
SetFunction(functions, info) ==
  IF \E p \in 1..Len(functions) : functions[p].name = info.name
  THEN [p \in 1..Len(functions) |->
          IF functions[p].name = info.name THEN info ELSE functions[p]]
  ELSE Append(functions, info)

\* One match of the function expression turned into its entry.
FunctionInfo(m) ==
  LET paramsRaw == Trim(m.raw)
  IN [name |-> m.name,
      params |-> IF paramsRaw = << >> THEN << >> ELSE SplitComma(paramsRaw),
      label |-> m.name \o "(" \o Join(paramsRaw) \o ")"]

RECURSIVE CollectFunctions(_, _)
CollectFunctions(functions, ms) ==
  IF ms = << >> THEN functions
  ELSE CollectFunctions(SetFunction(functions, FunctionInfo(Head(ms))), Tail(ms))

RECURSIVE CollectAnnotations(_, _)
CollectAnnotations(vars, ms) ==
  IF ms = << >> THEN vars
  ELSE CollectAnnotations(SetVar(vars, Head(ms).name, Head(ms).type), Tail(ms))

RECURSIVE CollectAssigns(_, _, _)
CollectAssigns(vars, t, ms) ==
  IF ms = << >> THEN vars
  ELSE CollectAssigns(SetVar(vars, Head(ms).name, t), t, Tail(ms))

\* The categories with the string expressions tried first.
assignPatternsStrFirst ==
  << [type |-> "str", regs |-> << "strLit", "strCall" >>],
     [type |-> "list", regs |-> << "listEmpty", "listLit", "listCall" >>],
     [type |-> "dict", regs |-> << "dictEmpty", "dictLit", "dictCall" >>],
     [type |-> "set", regs |-> << "setCall" >>] >>

\* const assignPatterns: the categories in their order, each with its expressions.
assignPatterns ==
  << [type |-> "list", regs |-> << "listEmpty", "listLit", "listCall" >>],
     [type |-> "dict", regs |-> << "dictEmpty", "dictLit", "dictCall" >>],
     [type |-> "set", regs |-> << "setCall" >>],
     [type |-> "str", regs |-> << "strLit", "strCall" >>] >>

RECURSIVE ApplyRegs(_, _, _, _)
ApplyRegs(vars, t, regs, s) ==
  IF regs = << >> THEN vars
  ELSE ApplyRegs(CollectAssigns(vars, t, ExecAll(Head(regs), s, 1)), t, Tail(regs), s)

RECURSIVE ApplyPatterns(_, _, _)
ApplyPatterns(vars, pats, s) ==
  IF pats = << >> THEN vars
  ELSE ApplyPatterns(ApplyRegs(vars, Head(pats).type, Head(pats).regs, s),
                     Tail(pats), s)

EmptyVars == [n \in {} |-> "unknown"]

\* The index of a text: local functions, then annotations, then the assignment
\* categories in the order of assignPatterns.
buildSymbolIndex(txt) ==
  [vars |-> ApplyPatterns(CollectAnnotations(EmptyVars, ExecAll("annotation", txt, 1)),
                          assignPatterns, txt),
   functions |-> CollectFunctions(<< >>, ExecAll("def", txt, 1))]

\* idx = { vars: {}, functions: {} }
EmptyIndex == [vars |-> EmptyVars, functions |-> << >>]

(***************************************************************************)
(* The catalog and the query providers                                     *)
(***************************************************************************)

\* The value of a property that is not there.
Undefined == "undefined"

\* doc ? a : b -- an absent docstring and an empty one are both falsy.
Truthy(doc) == doc # Undefined /\ doc # ""

\* const METHOD_METADATA
METHOD_METADATA ==
  [list |->
     << [name |-> "append", label |-> "list.append(item: Any) -> None",
         params |-> << "item: Any" >>,
         doc |-> "Append item to the end of the list."],
        [name |-> "remove", label |-> "list.remove(item: Any) -> None",
         params |-> << "item: Any" >>,
         doc |-> "Remove first occurrence of item. Raises if not present."],
        [name |-> "insert", label |-> "list.insert(index: int, item: Any) -> None",
         params |-> << "index: int", "item: Any" >>,
         doc |-> "Insert item at a given position."],
        [name |-> "pop", label |-> "list.pop(index: Optional[int] = None) -> Any",
         params |-> << "index: Optional[int] = None" >>,
         doc |-> "Remove and return item at index (default last)."] >>,
   dict |->
     << [name |-> "pop", label |-> "dict.pop(key: Any) -> Any",
         params |-> << "key: Any" >>,
         doc |-> "Remove specified key and return the corresponding value."] >>,
   set |->
     << [name |-> "add", label |-> "set.add(item: Any) -> None",
         params |-> << "item: Any" >>,
         doc |-> "Add element to the set."],
        [name |-> "remove", label |-> "set.remove(item: Any) -> None",
         params |-> << "item: Any" >>,
         doc |-> "Remove element from the set. Raises if not present."] >>]

\* Values of ParsedBuiltins.  A record of the source (classes, members,
\* functions, constants) is the sequence of its entries in key order, which
\* for these keys (identifiers) is the order of their first insertion.
VectorCatalog ==
  [classes |->
     << [name |-> "Vector",
         members |-> << [name |-> "length", doc |-> "Euclidean length"],
                        [name |-> "x", doc |-> Undefined] >>] >>,
   functions |-> << [name |-> "harvest", doc |-> "Harvest the crop",
                     signatureLabel |-> "harvest()", params |-> << >>,
                     returnType |-> ""],
                    [name |-> "f", doc |-> Undefined,
                     signatureLabel |-> "f(a, b, c) -> str",
                     params |-> << "a", "b", "c" >>, returnType |-> "str"] >>,
   constants |-> << [name |-> "North", doc |-> "Up"],
                    [name |-> "harvest", doc |-> "" ] >>]

\* A catalog with names that differ in case only, and a class without members.
CaseCatalog ==
  [classes |->
     << [name |-> "VECTOR", members |-> << [name |-> "Length", doc |-> ""] >>],
        [name |-> "Vector",
         members |-> << [name |-> "length", doc |-> "Euclidean length"],
                        [name |-> "bogus", doc |-> Undefined] >>],
        [name |-> "g", members |-> << >>] >>,
   functions |-> << [name |-> "Harvest", doc |-> Undefined,
                     signatureLabel |-> "Harvest(a)", params |-> << "a" >>,
                     returnType |-> ""] >>,
   constants |-> << [name |-> "bogus", doc |-> "A constant"],
                    [name |-> "north", doc |-> Undefined],
                    [name |-> "North", doc |-> "Up"] >>]

\* The catalog of a reference text without declarations.
EmptyCatalog == [classes |-> << >>, functions |-> << >>, constants |-> << >>]

Catalogs == { VectorCatalog, CaseCatalog, EmptyCatalog }

\* classNames: Object.keys(classes)
classNames(cat) == [p \in 1..Len(cat.classes) |-> cat.classes[p].name]

\* Object.keys(entries).find((k) => k.toLowerCase() === id.toLowerCase()) with
\* exact comparison of the keys.
FindKeyExact(entries, id) ==
  LET hits == { p \in 1..Len(entries) : entries[p].name = id }
  IN IF hits = {} THEN 0 ELSE CHOOSE p \in hits : \A q \in hits : p <= q

\* Object.keys(entries).find((k) => k.toLowerCase() === id.toLowerCase()): the
\* position of the first entry found, 0 for undefined.
FindKey(entries, id) ==
  LET hits == { p \in 1..Len(entries) :
                  toLowerCase(entries[p].name) = toLowerCase(id) }
  IN IF hits = {} THEN 0 ELSE CHOOSE p \in hits : \A q \in hits : p <= q

\* new monaco.Range(lineNumber, startColumn, lineNumber, endColumn)
Range(lineNumber, startColumn, endColumn) ==
  [startLineNumber |-> lineNumber, startColumn |-> startColumn,
   endLineNumber |-> lineNumber, endColumn |-> endColumn]

RECURSIVE SplitLines(_)
\* The lines of a text.
SplitLines(toks) ==
  LET c == FirstOf(toks, 1, "\n")
  IN IF c = 0 THEN << toks >>
     ELSE << SubSeq(toks, 1, c - 1) >> \o SplitLines(SubSeq(toks, c + 1, Len(toks)))

\* model.getLineContent(lineNumber)
getLineContent(toks, lineNumber) == SplitLines(toks)[lineNumber]

RECURSIVE ColumnOf(_, _)
\* The column of the first character of token k of a line (columns start at
\* 1); for k = Len(line) + 1 the column after the line's last character.
ColumnOf(line, k) ==
  IF k <= 1 THEN 1 ELSE ColumnOf(line, k - 1) + StrLen(line[k - 1])

\* The columns at which a token of the line starts or the line ends.
TokenBoundaries(line) == { ColumnOf(line, k) : k \in 1..(Len(line) + 1) }

\* model.getValueInRange(new monaco.Range(lineNumber, 1, lineNumber, column))
\* for a column at a token boundary.
getValueInRange(line, column) ==
  LET ks == { k \in 0..Len(line) : ColumnOf(line, k + 1) <= column }
  IN SubSeq(line, 1, CHOOSE k \in ks : \A j \in ks : j <= k)

\* model.getWordUntilPosition(position) for a column at a token boundary.
getWordUntilPosition(line, column) ==
  LET before == getValueInRange(line, column)
  IN IF before # << >> /\ IsWord(before[Len(before)])
     THEN [word |-> before[Len(before)],
           startColumn |-> column - StrLen(before[Len(before)]),
           endColumn |-> column]
     ELSE [word |-> "", startColumn |-> column, endColumn |-> column]

\* model.getWordAtPosition(position): the word that holds or touches the
\* column; found is FALSE for null.
getWordAtPosition(line, column) ==
  LET ks == { k \in 1..Len(line) :
                /\ IsWord(line[k])
                /\ ColumnOf(line, k) <= column
                /\ column <= ColumnOf(line, k) + StrLen(line[k]) }
  IN IF ks = {}
     THEN [found |-> FALSE, word |-> "", startColumn |-> 0, endColumn |-> 0]
     ELSE LET k == CHOOSE j \in ks : TRUE
          IN [found |-> TRUE, word |-> line[k],
              startColumn |-> ColumnOf(line, k),
              endColumn |-> ColumnOf(line, k) + StrLen(line[k])]

RECURSIVE NumberToString(_)
\* Number.prototype.toString() of a natural number: its decimal digits.
NumberToString(n) ==
  IF n < 10 THEN << 48 + n >> ELSE NumberToString(n \div 10) \o << 48 + (n % 10) >>

RECURSIVE padStart(_, _, _)
\* String.prototype.padStart(targetLength, padString) for a padString of one
\* code unit.
padStart(units, targetLength, pad) ==
  IF Len(units) >= targetLength THEN units
  ELSE padStart(<< pad >> \o units, targetLength, pad)

\* `${tier}_${idx.toString().padStart(3, "0")}_${name}`, as code units.
sortText(tier, idx, name) ==
  Spell(tier) \o Spell("_") \o padStart(NumberToString(idx), 3, 48)
    \o Spell("_") \o Spell(name)

\* The item made of entry idx of METHOD_METADATA[varType].
MethodSuggestion(varType, mi, idx, range) ==
  [label |-> mi.name,
   kind |-> "Method",
   insertText |-> Join(<< mi.name, "()" >>),
   range |-> range,
   detail |-> Join(<< varType, " method" >>),
   documentation |-> IF Truthy(mi.doc) THEN Join(<< mi.label, "\n\n", mi.doc >>)
                     ELSE mi.label,
   sortText |-> sortText("0", idx, mi.name),
   preselect |-> (idx = 0)]

\* The item made of member idx of the class clsKey.
MemberSuggestion(clsKey, member, idx, range) ==
  [label |-> member.name,
   kind |-> "EnumMember",
   insertText |-> member.name,
   range |-> range,
   detail |-> Join(<< clsKey, " member" >>),
   documentation |-> IF Truthy(member.doc) THEN member.doc ELSE Undefined,
   sortText |-> sortText("0", idx, member.name),
   preselect |-> (idx = 0)]

\* The items of the top-level branch, made of entry idx of their tier; these
\* items have no preselect property.
LocalFunctionSuggestion(info, idx, range) ==
  [label |-> info.name,
   kind |-> "Function",
   insertText |-> Join(<< info.name, "()" >>),
   range |-> range,
   detail |-> "function (document)",
   documentation |-> info.label,
   sortText |-> sortText("1", idx, info.name),
   preselect |-> FALSE]

ClassSuggestion(name, idx, range) ==
  [label |-> name,
   kind |-> "Class",
   insertText |-> name,
   range |-> range,
   detail |-> "class",
   documentation |-> Undefined,
   sortText |-> sortText("1a", idx, name),
   preselect |-> FALSE]

FunctionSuggestion(entry, idx, range) ==
  [label |-> entry.name,
   kind |-> "Function",
   insertText |-> Join(<< entry.name, "()" >>),
   range |-> range,
   detail |-> "function",
   documentation |-> IF Truthy(entry.doc) THEN entry.doc ELSE Undefined,
   sortText |-> sortText("2", idx, entry.name),
   preselect |-> FALSE]

ConstantSuggestion(entry, idx, range) ==
  [label |-> entry.name,
   kind |-> "Constant",
   insertText |-> entry.name,
   range |-> range,
   detail |-> "constant",
   documentation |-> IF Truthy(entry.doc) THEN entry.doc ELSE Undefined,
   sortText |-> sortText("3", idx, entry.name),
   preselect |-> FALSE]

\* The suggestions of the top-level branch: the four lists, spread in order.
TopLevelSuggestions(cat, index, range) ==
  [p \in 1..Len(index.functions) |->
     LocalFunctionSuggestion(index.functions[p], p - 1, range)]
  \o [p \in 1..Len(cat.classes) |-> ClassSuggestion(classNames(cat)[p], p - 1, range)]
  \o [p \in 1..Len(cat.functions) |-> FunctionSuggestion(cat.functions[p], p - 1, range)]
  \o [p \in 1..Len(cat.constants) |-> ConstantSuggestion(cat.constants[p], p - 1, range)]

\* linePrefix.match(/(?:^|\W)([A-Za-z_][A-Za-z0-9_]*)\.[A-Za-z_0-9]*$/): the
\* position of group 1 among the tokens of linePrefix, 0 for no match.
MatchMemberAccess(linePrefix) ==
  LET n == Len(linePrefix)
  IN IF n >= 2 /\ linePrefix[n] = "." /\ IsIdent(linePrefix[n - 1]) THEN n - 1
     ELSE IF n >= 3 /\ IsWord(linePrefix[n]) /\ linePrefix[n - 1] = "."
             /\ IsIdent(linePrefix[n - 2]) THEN n - 2
     ELSE 0

\* (symIndex.vars && symIndex.vars[id]) || "unknown"
VarType(index, id) == IF id \in DOMAIN index.vars THEN index.vars[id] ELSE "unknown"

\* provideCompletionItems with the class looked up before the variable's type.
provideCompletionItemsClassFirst(cat, index, line, lineNumber, column) ==
  LET word == getWordUntilPosition(line, column)
      range == Range(lineNumber, word.startColumn, word.endColumn)
      linePrefix == TrimEnd(getValueInRange(line, column))
      g == MatchMemberAccess(linePrefix)
      id == linePrefix[g]
      varType == VarType(index, id)
      clsKey == FindKey(cat.classes, id)
  IN [suggestions |->
        IF g # 0 /\ clsKey # 0
        THEN [idx \in 1..Len(cat.classes[clsKey].members) |->
                MemberSuggestion(cat.classes[clsKey].name,
                                 cat.classes[clsKey].members[idx], idx - 1, range)]
        ELSE IF g # 0 /\ varType \in { "list", "dict", "set" }
        THEN [idx \in 1..Len(METHOD_METADATA[varType]) |->
                MethodSuggestion(varType, METHOD_METADATA[varType][idx], idx - 1, range)]
        ELSE TopLevelSuggestions(cat, index, range)]

\* provideCompletionItems(model, position): the { suggestions } returned, for the
\* catalog, the index getOrBuildIndex(model) returns, the line of the position
\* and a column at a token boundary.
provideCompletionItems(cat, index, line, lineNumber, column) ==
  LET word == getWordUntilPosition(line, column)
      range == Range(lineNumber, word.startColumn, word.endColumn)
      linePrefix == TrimEnd(getValueInRange(line, column))
      g == MatchMemberAccess(linePrefix)
      id == linePrefix[g]
      varType == VarType(index, id)
      clsKey == FindKey(cat.classes, id)
  IN [suggestions |->
        IF g # 0 /\ varType \in { "list", "dict", "set" }
        THEN [idx \in 1..Len(METHOD_METADATA[varType]) |->
                MethodSuggestion(varType, METHOD_METADATA[varType][idx], idx - 1, range)]
        ELSE IF g # 0 /\ clsKey # 0
        THEN [idx \in 1..Len(cat.classes[clsKey].members) |->
                MemberSuggestion(cat.classes[clsKey].name,
                                 cat.classes[clsKey].members[idx], idx - 1, range)]
        ELSE TopLevelSuggestions(cat, index, range)]

RECURSIVE ExecDotted(_, _)
\* while ((match = regex.exec(lineContent)) !== null) for the expression
\* /\b([A-Za-z_][A-Za-z0-9_]*)\.([A-Za-z_][A-Za-z0-9_]*)\b/g: the token
\* positions of the matches in line order, each search resuming after the
\* previous match.
ExecDotted(line, i) ==
  IF i + 2 > Len(line) THEN << >>
  ELSE IF IsIdent(line[i]) /\ line[i + 1] = "." /\ IsIdent(line[i + 2])
  THEN << i >> \o ExecDotted(line, i + 3)
  ELSE ExecDotted(line, i + 1)

\* return null
NoHover == [isNull |-> TRUE, range |-> Range(0, 0, 0), contents |-> << >>]

\* { range, contents: [{ value: head }, ...(doc ? [{ value: doc }] : [])] }
Hover(range, head, doc) ==
  [isNull |-> FALSE, range |-> range,
   contents |-> IF Truthy(doc) THEN << head, doc >> ELSE << head >>]

\* The body of the scan's loop for the match at token i, whose span covers the
\* column.
DottedHover(cat, line, i, lineNumber) ==
  LET startColumn == ColumnOf(line, i)
      endColumn == startColumn + StrLen(line[i]) + StrLen(".") + StrLen(line[i + 2])
      clsKey == FindKey(cat.classes, line[i])
      members == cat.classes[clsKey].members
      memberKey == FindKey(members, line[i + 2])
  IN IF clsKey = 0 THEN NoHover
     ELSE IF memberKey = 0 THEN NoHover
     ELSE Hover(Range(lineNumber, startColumn, endColumn),
                Join(<< cat.classes[clsKey].name, ".", members[memberKey].name >>),
                members[memberKey].doc)

\* The part of provideHover after the scan: the word at the position against
\* the functions, then the constants.
WordHover(cat, line, lineNumber, column) ==
  LET word == getWordAtPosition(line, column)
      fn == FindKey(cat.functions, word.word)
      kc == FindKey(cat.constants, word.word)
      range == Range(lineNumber, word.startColumn, word.endColumn)
  IN IF ~word.found THEN NoHover
     ELSE IF fn # 0 THEN Hover(range, Join(<< word.word, "()" >>), cat.functions[fn].doc)
     ELSE IF kc # 0 THEN Hover(range, word.word, cat.constants[kc].doc)
     ELSE NoHover

\* position.column >= startColumn && position.column <= endColumn for the match
\* at token i.
Covers(line, i, column) ==
  /\ column >= ColumnOf(line, i)
  /\ column <= ColumnOf(line, i) + StrLen(line[i]) + StrLen(".") + StrLen(line[i + 2])

\* provideHover(model, position)
provideHover(cat, line, lineNumber, column) ==
  LET covering == SelectSeq(ExecDotted(line, 1), LAMBDA i : Covers(line, i, column))
  IN IF covering # << >> THEN DottedHover(cat, line, Head(covering), lineNumber)
     ELSE WordHover(cat, line, lineNumber, column)

\* The match of [A-Za-z_][A-Za-z0-9_]* that ends with the word t and starts as
\* far left as it can: t from its first letter or underscore on, "" when t
\* holds digits only.  The scan of an expression that starts with this group
\* finds it first.
IdentSuffix(t) ==
  LET u == Spell(t)
      IsStart(c) == (c >= 65 /\ c <= 90) \/ (c >= 97 /\ c <= 122) \/ c = 95
      starts == { p \in 1..Len(u) : IsStart(u[p]) }
      first == CHOOSE p \in starts : \A q \in starts : p <= q
      hits == { id \in Identifiers : Spell(id) = SubSeq(u, first, Len(u)) }
  IN IF ~IsWord(t) \/ starts = {} \/ hits = {} THEN "" ELSE CHOOSE id \in hits : TRUE

\* textBefore.lastIndexOf("("): the position of the last "(" token, 0 for -1.
lastIndexOfOpen(textBefore) ==
  LET opens == { p \in 1..Len(textBefore) : textBefore[p] = "(" }
  IN IF opens = {} THEN 0 ELSE CHOOSE p \in opens : \A q \in opens : q <= p

\* \([^()]*$ -- the position of the "(" that no parenthesis follows, 0 for none.
MatchOpenCall(textBefore) ==
  LET o == lastIndexOfOpen(textBefore)
  IN IF o # 0 /\ \A p \in (o + 1)..Len(textBefore) : textBefore[p] # ")" THEN o ELSE 0

RECURSIVE SkipWsBack(_, _)
\* \s* read backwards from position i: the last position at or before i that
\* holds no white space, 0 when there is none.
SkipWsBack(s, i) == IF i >= 1 /\ IsWs(s[i]) THEN SkipWsBack(s, i - 1) ELSE i

NoCallMatch == [ok |-> FALSE, varName |-> "", name |-> ""]

\* /([A-Za-z_][A-Za-z0-9_]*)\.([A-Za-z_][A-Za-z0-9_]*)\s*\([^()]*$/.exec(textBefore)
methodMatch(textBefore) ==
  LET o == MatchOpenCall(textBefore)
      k == SkipWsBack(textBefore, o - 1)
  IN IF o # 0 /\ k >= 3 /\ IsIdent(textBefore[k]) /\ textBefore[k - 1] = "."
        /\ IdentSuffix(textBefore[k - 2]) # ""
     THEN [ok |-> TRUE, varName |-> IdentSuffix(textBefore[k - 2]),
           name |-> textBefore[k]]
     ELSE NoCallMatch

\* /([A-Za-z_][A-Za-z0-9_]*)\s*\([^()]*$/.exec(textBefore)
fnMatch(textBefore) ==
  LET o == MatchOpenCall(textBefore)
      k == SkipWsBack(textBefore, o - 1)
  IN IF o # 0 /\ k >= 1 /\ IdentSuffix(textBefore[k]) # ""
     THEN [ok |-> TRUE, varName |-> "", name |-> IdentSuffix(textBefore[k])]
     ELSE NoCallMatch

\* (argsSoFar.match(/,/g) || []).length for the text after the last "(".
commaCount(textBefore) ==
  Cardinality({ p \in (lastIndexOfOpen(textBefore) + 1)..Len(textBefore) :
                  textBefore[p] = "," })

\* The active parameter without the clamp to the last parameter.
activeParameterUnclamped(commas, params) == commas

\* Math.min(commaCount, Math.max(0, params.length - 1))
activeParameter(commas, params) ==
  LET last == IF Len(params) - 1 > 0 THEN Len(params) - 1 ELSE 0
  IN IF commas < last THEN commas ELSE last

\* The names every object inherits from Object.prototype, among the
\* identifiers of the model: functions[name] is truthy for them on an index
\* that has no function of that name.
ObjectPrototypeKeys == { "toString" }

\* symIndex.functions[fnName]: the position of the own entry, 0 for none.
OwnFunction(index, fnName) ==
  LET hits == { p \in 1..Len(index.functions) : index.functions[p].name = fnName }
  IN IF hits = {} THEN 0 ELSE CHOOSE p \in hits : TRUE

\* return null
NoSignature ==
  [isNull |-> TRUE, threw |-> FALSE, label |-> "", parameters |-> << >>,
   documentation |-> Undefined, activeSignature |-> 0, activeParameter |-> 0]

\* params.length of an undefined params: the TypeError leaves the provider.
SignatureTypeError ==
  [isNull |-> FALSE, threw |-> TRUE, label |-> "", parameters |-> << >>,
   documentation |-> Undefined, activeSignature |-> 0, activeParameter |-> 0]

\* { value: { signatures: [{ label, parameters, documentation }],
\*            activeSignature: 0, activeParameter } }
SignatureHelp(label, params, doc, commas) ==
  [isNull |-> FALSE, threw |-> FALSE, label |-> label, parameters |-> params,
   documentation |-> IF Truthy(doc) THEN doc ELSE Undefined,
   activeSignature |-> 0, activeParameter |-> activeParameter(commas, params)]

\* The part of provideSignatureHelp after the method branch: the bare call.
BareCallSignature(cat, index, textBefore) ==
  LET fm == fnMatch(textBefore)
      builtinFn == FindKey(cat.functions, fm.name)
      own == OwnFunction(index, fm.name)
  IN IF ~fm.ok THEN NoSignature
     ELSE IF builtinFn # 0
     THEN SignatureHelp(IF cat.functions[builtinFn].signatureLabel # ""
                        THEN cat.functions[builtinFn].signatureLabel
                        ELSE Join(<< fm.name, "()" >>),
                        cat.functions[builtinFn].params,
                        cat.functions[builtinFn].doc, commaCount(textBefore))
     ELSE IF own # 0
     THEN SignatureHelp(index.functions[own].label, index.functions[own].params,
                        Undefined, commaCount(textBefore))
     ELSE IF fm.name \in ObjectPrototypeKeys THEN SignatureTypeError
     ELSE NoSignature

\* provideSignatureHelp(model, position) for the catalog, the index
\* getOrBuildIndex(model) returns, the line of the position and a column at a
\* token boundary.
provideSignatureHelp(cat, index, line, column) ==
  LET textBefore == getValueInRange(line, column)
      mm == methodMatch(textBefore)
      varType == VarType(index, mm.varName)
      mi == IF mm.ok /\ varType \in { "list", "dict", "set" }
            THEN FindKey(METHOD_METADATA[varType], mm.name) ELSE 0
  IN IF mi # 0
     THEN SignatureHelp(METHOD_METADATA[varType][mi].label,
                        METHOD_METADATA[varType][mi].params,
                        METHOD_METADATA[varType][mi].doc, commaCount(textBefore))
     ELSE BareCallSignature(cat, index, textBefore)

\* The documents signature help is asked about.
SignatureDocs ==
  { << "def", " ", "f", "(", "a", ",", " ", "b", ",", " ", "c", ")", ":", "\n",
       "f", "(", "a", ",", " ", "b", ",", " ", "c", ",", " ", "d" >>,
    << "x", " ", "=", " ", "[", "]", "\n",
       "x", ".", "insert", "(", "1", ",", " ", "1", ",", "1", "\n",
       "x", ".", "Pop", " ", "(", "9z", ".", "bogus", "(" >>,
    << "y", ":", " ", "dict", "\n",
       "y", ".", "append", "(", "a", ",", " ", "harvest", "(", " ", "b" >>,
    << "def", " ", "harvest", "(", "a", ")", ":", "\n",
       "Harvest", "(", "a", ",", "9z", "(", "toString", "(",
       "x", ".", "f", "(", "a", ")" >>,
    << "def", " ", "g", "(", ")", ":", "\n",
       "g", "(", "a", ",", "b", "\n", "1", "(", " ", "(" >> }

\* The documents queried, as token sequences.
QueryDocs ==
  { << "x", " ", "=", " ", "[", "]", "\n", "x", "." >>,
    << "vector", " ", "=", " ", "set", "(", ")", "\n", "vector", ".", "a" >>,
    << "vector", " ", "=", " ", "\"s\"", "\n",
       "vector", ".", "9z", " ", "VECTOR", ".", "Length" >>,
    << "y", ":", " ", "dict", "\n",
       "obj", ".", "harvest", " ", "Vector", ".", "bogus", " ", "North" >>,
    << "def", " ", "f", "(", "a", ")", ":", "\n",
       "a", ".", "Vector", ".", "length", " ", "harvest", "(" >>,
    << "y", ".", " ", "g", ".", " ", "x", ".", "pop" >> }

\* The indexes of the documents queried.
QueryIndexes == { buildSymbolIndex(d) : d \in QueryDocs }

\* Positions in a tier at which two consecutive entries are looked at, and
\* the names of the two entries.
EntryPositions == { 0, 8, 9, 98, 99, 998, 999 }
EntryNames == { "f", "g" }
Tiers == { "local", "class", "function", "constant" }

\* The item the top-level branch makes of the entry called name at position
\* idx of a tier.
TierSuggestion(tier, name, idx, range) ==
  CASE tier = "local" ->
         LocalFunctionSuggestion([name |-> name, params |-> << >>,
                                  label |-> Join(<< name, "()" >>)], idx, range)
    [] tier = "class" -> ClassSuggestion(name, idx, range)
    [] tier = "function" -> FunctionSuggestion([name |-> name, doc |-> Undefined], idx, range)
    [] tier = "constant" -> ConstantSuggestion([name |-> name, doc |-> Undefined], idx, range)

(***************************************************************************)
(* parseBuiltins                                                           *)
(***************************************************************************)

\* The two docstring delimiters, each one token.
TripleQuotes == { "\"\"\"", "'''" }

\* String.prototype.trimStart on a token sequence.
TrimStart(toks) == SubSeq(toks, SkipWs(toks, 1), Len(toks))

NoDecl == [ok |-> FALSE, name |-> "", paramsRaw |-> << >>, returnType |-> << >>]

\* /^class\s+([A-Za-z_][A-Za-z0-9_]*)\s*:/.exec(line)
classDecl(line) ==
  LET n == SkipWs(line, 2)
      c == SkipWs(line, n + 1)
  IN IF Len(line) >= 2 /\ line[1] = "class" /\ IsWs(line[2])
        /\ n <= Len(line) /\ IsIdent(line[n]) /\ c <= Len(line) /\ line[c] = ":"
     THEN [ok |-> TRUE, name |-> line[n], paramsRaw |-> << >>, returnType |-> << >>]
     ELSE NoDecl

\* /^(\s{4}|\t)([A-Za-z_][A-Za-z0-9_]*)\s*:\s*[A-Za-z_][A-Za-z0-9_\[\]]*/.exec(line)
memberDecl(line) ==
  LET starts == { k \in { 2, 5 } :
                    /\ k <= Len(line)
                    /\ IF k = 5 THEN \A p \in 1..4 : IsWs(line[p]) ELSE line[1] = "\t"
                    /\ IsIdent(line[k])
                    /\ LET j == SkipWs(line, k + 1)
                           t == SkipWs(line, j + 1)
                       IN j <= Len(line) /\ line[j] = ":" /\ t <= Len(line)
                          /\ IsIdent(line[t]) }
  IN IF starts = {} THEN NoDecl
     ELSE [ok |-> TRUE, name |-> line[CHOOSE k \in starts : \A q \in starts : q <= k],
           paramsRaw |-> << >>, returnType |-> << >>]

\* /^def\s+([A-Za-z_][A-Za-z0-9_]*)\s*\(([^)]*)\)\s*(?:->\s*([^:]+))?\s*:/.exec(line)
defDecl(line) ==
  LET n == SkipWs(line, 2)
      o == SkipWs(line, n + 1)
      c == FirstOf(line, o + 1, ")")
      d == SkipWs(line, c + 1)
      e == FirstOf(line, d + 2, ":")
  IN IF ~(Len(line) >= 2 /\ line[1] = "def" /\ IsWs(line[2]) /\ n <= Len(line)
          /\ IsIdent(line[n]) /\ o <= Len(line) /\ line[o] = "(" /\ c # 0
          /\ d <= Len(line))
     THEN NoDecl
     ELSE IF d + 1 <= Len(line) /\ line[d] = "-" /\ line[d + 1] = ">" /\ e > d + 2
     THEN [ok |-> TRUE, name |-> line[n], paramsRaw |-> SubSeq(line, o + 1, c - 1),
           returnType |-> SubSeq(line, d + 2, e - 1)]
     ELSE IF line[d] = ":"
     THEN [ok |-> TRUE, name |-> line[n], paramsRaw |-> SubSeq(line, o + 1, c - 1),
           returnType |-> << >>]
     ELSE NoDecl

\* /^([A-Za-z_][A-Za-z0-9_]*)\s*=\s*[A-Za-z_][A-Za-z0-9_]*\(/.exec(line)
constDecl(line) ==
  LET j == SkipWs(line, 2)
      k == SkipWs(line, j + 1)
  IN IF Len(line) >= 1 /\ IsIdent(line[1]) /\ j <= Len(line) /\ line[j] = "="
        /\ k + 1 <= Len(line) /\ IsIdent(line[k]) /\ line[k + 1] = "("
     THEN [ok |-> TRUE, name |-> line[1], paramsRaw |-> << >>, returnType |-> << >>]
     ELSE NoDecl

RECURSIVE SkipBlank(_, _)
\* while (j < linesLocal.length && linesLocal[j].trim().length === 0) j++
SkipBlank(lines, j) ==
  IF j < Len(lines) /\ Trim(lines[j + 1]) = << >> THEN SkipBlank(lines, j + 1) ELSE j

RECURSIVE JoinParts(_)
\* parts.join("\n"), as tokens.
JoinParts(parts) ==
  IF parts = << >> THEN << >>
  ELSE IF Len(parts) = 1 THEN Head(parts)
  ELSE Head(parts) \o << "\n" >> \o JoinParts(Tail(parts))

RECURSIVE ReadParts(_, _, _, _)
\* The loop over the lines of a docstring that its first line does not close.
ReadParts(lines, j, triple, parts) ==
  IF j >= Len(lines) THEN [parts |-> parts, next |-> j]
  ELSE LET lt == TrimStart(lines[j + 1])
           endIdx == FirstOf(lt, 1, triple)
       IN IF endIdx # 0
          THEN [parts |-> Append(parts, SubSeq(lt, 1, endIdx - 1)), next |-> j + 1]
          ELSE ReadParts(lines, j + 1, triple, Append(parts, lt))

\* readDocString(startIndex, minIndent); line j of the source is lines[j + 1].
readDocString(lines, startIndex, minIndent) ==
  LET j == SkipBlank(lines, startIndex)
      raw == lines[j + 1]
      indent == SkipWs(raw, 1) - 1
      t == TrimStart(raw)
      triple == t[1]
      content == Tail(t)
      close == FirstOf(content, 1, triple)
      rest == ReadParts(lines, j + 1, triple, << >>)
  IN IF j >= Len(lines) THEN [doc |-> Undefined, next |-> j]
     ELSE IF indent < minIndent THEN [doc |-> Undefined, next |-> j]
     ELSE IF t[1] \notin TripleQuotes THEN [doc |-> Undefined, next |-> j]
     ELSE IF close # 0
     THEN [doc |-> Join(Trim(SubSeq(content, 1, close - 1))), next |-> j + 1]
     ELSE [doc |-> Join(Trim(JoinParts(rest.parts))), next |-> rest.next]

\* currentClass = null
NoClass == "null"

\* classes[currentClass].members[name] = doc
SetMember(classes, currentClass, name, doc) ==
  [p \in 1..Len(classes) |->
     IF classes[p].name = currentClass
     THEN [classes[p] EXCEPT !.members = SetFunction(@, [name |-> name, doc |-> doc])]
     ELSE classes[p]]

\* functions[name] = { doc, signatureLabel, params, returnType }
CatalogFunction(d, doc) ==
  LET paramsRaw == Trim(d.paramsRaw)
      returnType == Join(Trim(d.returnType))
  IN [name |-> d.name,
      doc |-> doc,
      signatureLabel |->
        Join(<< d.name, "(", Join(paramsRaw), ")",
                IF returnType # "" THEN Join(<< " -> ", returnType >>) ELSE "" >>),
      params |-> IF paramsRaw = << >> THEN << >> ELSE SplitComma(paramsRaw),
      returnType |-> returnType]

\* One iteration of the main loop of parseBuiltins from the state
\* p = [lines, i, currentClass, classes, functions, constants, op], with the
\* value line 78 gives to currentClass as a parameter; op names the branch the
\* iteration took.
LoopBody(p, closedScope) ==
  LET line == p.lines[p.i + 1]
      c == classDecl(line)
      m == memberDecl(line)
      d == defDecl(line)
      k == constDecl(line)
      memberDoc == readDocString(p.lines, p.i + 1, 4)
      topDoc == readDocString(p.lines, p.i + 1, 0)
  IN IF c.ok
     THEN [p EXCEPT !.currentClass = c.name,
                    !.classes = IF \E q \in 1..Len(@) : @[q].name = c.name THEN @
                                ELSE Append(@, [name |-> c.name, members |-> << >>]),
                    !.i = @ + 1,
                    !.op = "class"]
     ELSE IF p.currentClass # NoClass /\ m.ok
     THEN [p EXCEPT !.classes = SetMember(@, p.currentClass, m.name, memberDoc.doc),
                    !.i = memberDoc.next,
                    !.op = "member"]
     ELSE IF p.currentClass # NoClass /\ Trim(line) # << >> /\ ~IsWs(line[1])
     THEN [p EXCEPT !.currentClass = closedScope, !.op = "close"]
     ELSE IF p.currentClass = NoClass /\ d.ok
     THEN [p EXCEPT !.functions = SetFunction(@, CatalogFunction(d, topDoc.doc)),
                    !.i = topDoc.next,
                    !.op = "def"]
     ELSE IF p.currentClass = NoClass /\ k.ok
     THEN [p EXCEPT !.constants = SetFunction(@, [name |-> k.name, doc |-> topDoc.doc]),
                    !.i = topDoc.next,
                    !.op = "const"]
     ELSE [p EXCEPT !.i = @ + 1, !.op = "skip"]

\* The iteration with the class scope left open by a non-indented line.
parseBuiltinsIterationKeepsScope(p) ==
  LoopBody(p, p.currentClass)

\* One iteration of the main loop of parseBuiltins (lines 58-106).
parseBuiltinsIteration(p) ==
  LoopBody(p, NoClass)

\* The lines of the reference texts: a class, a member, an indented one-line
\* docstring, a function, a docstring left open, a line that closes one, a
\* constant, an empty line and a line that declares nothing.
CatalogLines ==
  { << "class", " ", "Vector", ":" >>,
    << " ", " ", " ", " ", "length", ":", " ", "str" >>,
    << " ", " ", " ", " ", "\"\"\"", "a", "\"\"\"" >>,
    << "def", " ", "f", "(", "a", ",", " ", "b", ")", " ", "-", ">", " ", "str", ":" >>,
    << "\"\"\"", "a" >>,
    << "b", "\"\"\"" >>,
    << "North", " ", "=", " ", "Vector", "(" >>,
    << >>,
    << "x" >> }

\* The longest reference text, in lines.
MaxCatalogLines == 3

\* py.split(/\r?\n/) of the reference texts: at least one line.
CatalogTexts == UNION { [1..n -> CatalogLines] : n \in 1..MaxCatalogLines }

\* The parser's state once parseBuiltins has returned in the setup.
ParserReturned ==
  [lines |-> << >>, i |-> 0, currentClass |-> NoClass, classes |-> << >>,
   functions |-> << >>, constants |-> << >>, op |-> "returned"]

(***************************************************************************)
(* The host editor's documents                                             *)
(***************************************************************************)

\* The successive texts of a document, as token sequences: a document starts
\* with the first one and every content change takes it to the next one.
Docs ==
  << << "x", " ", "=", " ", "[", "]", "\n" >>,
     << "y", ":", " ", "dict", "\n", "def", " ", "f", "(", "a", ")", ":", "\n" >>,
     << >> >>

DocIds == 1..Len(Docs)

\* buildSymbolIndex of each text of Docs.
IndexOfDoc ==
  << buildSymbolIndex(Docs[1]), buildSymbolIndex(Docs[2]),
     buildSymbolIndex(Docs[3]) >>

Models == { "m1", "m2" }
NoModel == "null"

\* model.uri.toString() of each model; the host gives every model its own URI.
Uri(m) == IF m = "m1" THEN "inmemory://model/1" ELSE "inmemory://model/2"

\* function modelKey(model)
modelKey(m) == IF Uri(m) = "" THEN "default" ELSE Uri(m)

Keys == { modelKey(m) : m \in Models }

\* The delay of the rebuild timers, in milliseconds.
DebounceMs == 200

\* Bounds of the model: timers ever scheduled, and content-change
\* subscriptions one document can carry.
MaxTimers == 4
MaxSubs == 2

VARIABLES
  text,            \* model -> the version of its text (an index into Docs)
  disposedModels,  \* the models the host has disposed: getValue() throws on them
  active,          \* editor.getModel()
  installed,       \* FALSE once the disposer returned by the setup has run
  symbolIndexes,   \* Map key -> SymbolIndex
  indexTimers,     \* Map key -> id of the timer scheduled last for the key
  timers,          \* the host's pending timeouts: [id, key, model, delay]
  nextTimerId,     \* the id the next setTimeout returns
  subs,            \* model -> number of onDidChangeContent listeners it carries
  snapshot,        \* key -> the text indexed by the last completed build
  burst,           \* key -> notifications since the last timer expiry of the key
  lastBurst,       \* the notifications answered by the rebuild that ran last
  lastOp,          \* the operation that produced this state
  builtins,        \* the catalog parseBuiltins returned
  symIndex,        \* the index getOrBuildIndex returns to a provider
  queryText,       \* the text of the document a provider is asked about
  position,        \* the position of the last query
  answer,          \* what the last query returned
  parse            \* the locals of parseBuiltins: lines, i, currentClass, results

vars ==
  << text, disposedModels, active, installed, symbolIndexes, indexTimers, timers,
     nextTimerId, subs, snapshot, burst, lastBurst, lastOp,
     builtins, symIndex, queryText, position, answer, parse >>

\* The variables of the queries and of the catalog parser.
qvars == << builtins, symIndex, queryText, position, answer, parse >>

LiveModels == Models \ disposedModels

\* Map.prototype.set
MapSet(map, key, value) == (key :> value) @@ map

EmptyMap == [k \in {} |-> 0]

PendingFor(key) == { t \in timers : t.key = key }

\* A clearTimeout that cancels nothing.
clearTimeoutNothing(pending, id) == pending

\* clearTimeout(t): the timeout with that id no longer fires.
clearTimeout(pending, id) == { t \in pending : t.id # id }

\* setTimeout(callback, 200): a new pending timeout whose callback closes over
\* the key and the model.
setTimeout(pending, id, key, m) ==
  pending \cup { [id |-> id, key |-> key, model |-> m, delay |-> DebounceMs] }

\* A listener that cancels a pending rebuild without scheduling the next one.
OnDidChangeContentCancelOnly(r, m) ==
  LET key == modelKey(m)
      nt == r.nextTimerId
  IN IF key \in DOMAIN r.indexTimers
        /\ \E t \in r.timers : t.id = r.indexTimers[key]
     THEN [timers |-> clearTimeout(r.timers, r.indexTimers[key]),
           indexTimers |-> r.indexTimers,
           nextTimerId |-> nt + 1]
     ELSE [timers |-> setTimeout(r.timers, nt, key, m),
           indexTimers |-> MapSet(r.indexTimers, key, nt),
           nextTimerId |-> nt + 1]

\* A listener that schedules its rebuild without recording the timer in
\* indexTimers, so that the next notification finds nothing to cancel.
OnDidChangeContentUnrecorded(r, m) ==
  LET key == modelKey(m)
      cleared == IF key \in DOMAIN r.indexTimers
                 THEN clearTimeout(r.timers, r.indexTimers[key]) ELSE r.timers
      nt == r.nextTimerId
  IN [timers |-> setTimeout(cleared, nt, key, m),
      indexTimers |-> r.indexTimers,
      nextTimerId |-> nt + 1]

\* The listener given to onDidChangeContent, on the record r of the timer state.
OnDidChangeContent(r, m) ==
  LET key == modelKey(m)
      cleared == IF key \in DOMAIN r.indexTimers
                 THEN clearTimeout(r.timers, r.indexTimers[key]) ELSE r.timers
      nt == r.nextTimerId
  IN [timers |-> setTimeout(cleared, nt, key, m),
      indexTimers |-> MapSet(r.indexTimers, key, nt),
      nextTimerId |-> nt + 1]

RECURSIVE RunListeners(_, _, _)
\* The model's emitter calls each of its n listeners in turn.
RunListeners(r, m, n) ==
  IF n = 0 THEN r ELSE RunListeners(OnDidChangeContent(r, m), m, n - 1)

\* A rebuild that patches the variables of the old index in place.
RebuiltInPlace(old, fresh) ==
  [vars |-> fresh.vars @@ old.vars, functions |-> fresh.functions]

\* The index a rebuild installs: the fresh one replaces the old one whole.
Rebuilt(old, fresh) == fresh

\* symbolIndexes.set(key, buildSymbolIndex(m.getValue())) inside try {} catch {}:
\* getValue() throws on a disposed model and the map is then left as it is.
TrySetIndex(map, m) ==
  IF m \in disposedModels THEN map
  ELSE MapSet(map, modelKey(m),
              Rebuilt(IF modelKey(m) \in DOMAIN map THEN map[modelKey(m)] ELSE EmptyIndex,
                      IndexOfDoc[text[m]]))

\* function getOrBuildIndex(model) without its cache lookup.
getOrBuildIndexAlways(map, m) ==
  MapSet(map, modelKey(m),
         IF m \in disposedModels THEN EmptyIndex ELSE IndexOfDoc[text[m]])

\* function getOrBuildIndex(model): the map after the call.
getOrBuildIndex(map, m) ==
  IF modelKey(m) \in DOMAIN map THEN map
  ELSE MapSet(map, modelKey(m),
              IF m \in disposedModels THEN EmptyIndex ELSE IndexOfDoc[text[m]])

\* A model switch that reuses the cached index of the model.
SwitchIndexReuse(map, m) == getOrBuildIndex(map, m)

\* The same statement as in the timer callback, in the handler of
\* onDidChangeModel.
SwitchIndex(map, m) == TrySetIndex(map, m)

\* Book-keeping of a completed build of model m.
Built(m) == snapshot' = MapSet(snapshot, modelKey(m), text[m])

NotBuilt == UNCHANGED snapshot

\* The manager's state after setupTFWRIntelliSense(editor, monaco) has returned.
ManagerInit ==
  /\ text = [m \in Models |-> 1]
  /\ disposedModels = {}
  /\ active \in Models \cup { NoModel }
  /\ installed = TRUE
  /\ symbolIndexes =
       IF active = NoModel THEN [k \in {} |-> EmptyIndex]
       ELSE [k \in { modelKey(active) } |-> IndexOfDoc[text[active]]]
  /\ indexTimers = EmptyMap
  /\ timers = {}
  /\ nextTimerId = 1
  /\ subs = [m \in Models |-> IF m = active THEN 1 ELSE 0]
  /\ snapshot =
       IF active = NoModel THEN EmptyMap
       ELSE [k \in { modelKey(active) } |-> text[active]]
  /\ burst = [k \in Keys |-> 0]
  /\ lastBurst = 0
  /\ lastOp = "setup"

\* No query has been made.
NoAnswer == [suggestions |-> << >>]

\* The state after the setup, with the catalog of the reference text.
Init ==
  /\ ManagerInit
  /\ builtins = VectorCatalog
  /\ symIndex = EmptyIndex
  /\ queryText = << >>
  /\ position = [lineNumber |-> 1, column |-> 1]
  /\ answer = NoAnswer
  /\ parse = ParserReturned

\* The host changes the text of model m to its next version; the model then
\* notifies its content-change listeners.
ContentChange(m) ==
  /\ m \in LiveModels
  /\ text[m] < Len(Docs)
  /\ nextTimerId + subs[m] - 1 <= MaxTimers
  /\ LET r == RunListeners([timers |-> timers, indexTimers |-> indexTimers,
                            nextTimerId |-> nextTimerId], m, subs[m])
         key == modelKey(m)
     IN /\ timers' = r.timers
        /\ indexTimers' = r.indexTimers
        /\ nextTimerId' = r.nextTimerId
        /\ burst' = [burst EXCEPT ![key] = @ + subs[m]]
  /\ text' = [text EXCEPT ![m] = @ + 1]
  /\ lastOp' = "change"
  /\ UNCHANGED << disposedModels, active, installed, symbolIndexes, subs, snapshot,
                  lastBurst >>
  /\ UNCHANGED qvars

\* A pending timeout expires and its callback runs.
TimerFire(t) ==
  /\ t \in timers
  /\ timers' = timers \ { t }
  /\ symbolIndexes' = TrySetIndex(symbolIndexes, t.model)
  /\ IF t.model \in disposedModels THEN NotBuilt ELSE Built(t.model)
  /\ burst' = [burst EXCEPT ![t.key] = 0]
  /\ lastBurst' = burst[t.key]
  /\ lastOp' = "timer"
  /\ UNCHANGED << text, disposedModels, active, installed, indexTimers, nextTimerId,
                  subs >>
  /\ UNCHANGED qvars

\* The handler given to editor.onDidChangeModel, with m = editor.getModel().
OnDidChangeModel(m) ==
  IF m = NoModel \/ ~installed
  THEN /\ UNCHANGED << symbolIndexes, subs >>
       /\ NotBuilt
  ELSE /\ symbolIndexes' = SwitchIndex(symbolIndexes, m)
       /\ subs' = [subs EXCEPT ![m] = @ + 1]
       /\ Built(m)

\* The host gives the editor another model (or none).
ModelSwitch(target) ==
  /\ target \in LiveModels \cup { NoModel }
  /\ target # active
  /\ (installed /\ target # NoModel) => subs[target] < MaxSubs
  /\ active' = target
  /\ OnDidChangeModel(target)
  /\ lastOp' = "switch"
  /\ UNCHANGED << text, disposedModels, installed, indexTimers, timers, nextTimerId,
                  burst, lastBurst >>
  /\ UNCHANGED qvars

\* The host disposes model m.  The editor showing it is left without a model,
\* which it announces through onDidChangeModel.
DisposeModel(m) ==
  /\ m \in LiveModels
  /\ disposedModels' = disposedModels \cup { m }
  /\ active' = IF active = m THEN NoModel ELSE active
  /\ lastOp' = "disposeModel"
  /\ UNCHANGED << text, installed, symbolIndexes, indexTimers, timers, nextTimerId,
                  subs, snapshot, burst, lastBurst >>
  /\ UNCHANGED qvars

\* provideCompletionItems(model, position), as far as it touches the state.
ProvideCompletionItems(m) ==
  /\ installed
  /\ m \in LiveModels
  /\ symbolIndexes' = getOrBuildIndex(symbolIndexes, m)
  /\ IF modelKey(m) \in DOMAIN symbolIndexes THEN NotBuilt ELSE Built(m)
  /\ lastOp' = "completion"
  /\ UNCHANGED << text, disposedModels, active, installed, indexTimers, timers,
                  nextTimerId, subs, burst, lastBurst >>
  /\ UNCHANGED qvars

\* provideSignatureHelp(model, position), as far as it touches the state.
ProvideSignatureHelp(m) ==
  /\ installed
  /\ m \in LiveModels
  /\ symbolIndexes' = getOrBuildIndex(symbolIndexes, m)
  /\ IF modelKey(m) \in DOMAIN symbolIndexes THEN NotBuilt ELSE Built(m)
  /\ lastOp' = "signature"
  /\ UNCHANGED << text, disposedModels, active, installed, indexTimers, timers,
                  nextTimerId, subs, burst, lastBurst >>
  /\ UNCHANGED qvars

\* provideHover(model, position), as far as it touches the state.
ProvideHover(m) ==
  /\ installed
  /\ m \in LiveModels
  /\ lastOp' = "hover"
  /\ UNCHANGED << text, disposedModels, active, installed, symbolIndexes, indexTimers,
                  timers, nextTimerId, subs, snapshot, burst, lastBurst >>
  /\ UNCHANGED qvars

\* The function returned by the setup: it disposes the subscriptions and the
\* providers.
Dispose ==
  /\ installed
  /\ installed' = FALSE
  /\ subs' = [m \in Models |-> 0]
  /\ lastOp' = "dispose"
  /\ UNCHANGED << text, disposedModels, active, symbolIndexes, indexTimers, timers,
                  nextTimerId, snapshot, burst, lastBurst >>
  /\ UNCHANGED qvars

Next ==
  \/ \E m \in Models : ContentChange(m)
  \/ \E t \in timers : TimerFire(t)
  \/ \E target \in Models \cup { NoModel } : ModelSwitch(target)
  \/ \E m \in Models : DisposeModel(m)
  \/ \E m \in Models : ProvideCompletionItems(m)
  \/ \E m \in Models : ProvideSignatureHelp(m)
  \/ \E m \in Models : ProvideHover(m)
  \/ Dispose

Spec == Init /\ [][Next]_vars

\* The host's event loop runs the callback of every timeout that stays pending.
FairSpec == Spec /\ WF_vars(\E t \in timers : TimerFire(t))

(***************************************************************************)
(* The providers as functions of the catalog, the index, the text and the  *)
(* position                                                                *)
(***************************************************************************)

\* The manager's variables but lastOp.
mvars ==
  << text, disposedModels, active, installed, symbolIndexes, indexTimers, timers,
     nextTimerId, subs, snapshot, burst, lastBurst >>

\* A catalog, an index and a text for the providers to be asked about.
InitProviders ==
  /\ ManagerInit
  /\ active = NoModel
  /\ builtins \in Catalogs
  /\ symIndex \in QueryIndexes
  /\ queryText \in QueryDocs
  /\ position = [lineNumber |-> 1, column |-> 1]
  /\ answer = NoAnswer
  /\ parse = ParserReturned

\* model.getLineMaxColumn(lineNumber)
getLineMaxColumn(toks, lineNumber) ==
  ColumnOf(getLineContent(toks, lineNumber), Len(getLineContent(toks, lineNumber)) + 1)

\* The positions of a text.
Positions(toks) ==
  UNION { { [lineNumber |-> n, column |-> c] : c \in 1..getLineMaxColumn(toks, n) } :
          n \in 1..Len(SplitLines(toks)) }

\* The host asks for the completions at a position (a provider's answer does
\* not depend on earlier queries: each behaviour makes one query).
CompletionQuery(pos) ==
  /\ lastOp = "setup"
  /\ pos.column \in TokenBoundaries(getLineContent(queryText, pos.lineNumber))
  /\ position' = pos
  /\ answer' = provideCompletionItems(builtins, symIndex,
                                       getLineContent(queryText, pos.lineNumber),
                                       pos.lineNumber, pos.column)
  /\ lastOp' = "completion"
  /\ UNCHANGED << mvars, builtins, symIndex, queryText, parse >>

\* The host asks for the hover at a position.
HoverQuery(pos) ==
  /\ lastOp = "setup"
  /\ position' = pos
  /\ answer' = provideHover(builtins, getLineContent(queryText, pos.lineNumber),
                             pos.lineNumber, pos.column)
  /\ lastOp' = "hover"
  /\ UNCHANGED << mvars, builtins, symIndex, queryText, parse >>

\* The top-level branch maps the entries at the positions idx and idx + 1 of
\* a tier of more than idx + 1 entries, called a and b.
TopLevelEntries(tier, idx, a, b) ==
  /\ lastOp = "setup"
  /\ a # b
  /\ LET range == Range(position.lineNumber, position.column, position.column)
     IN answer' = [suggestions |-> << TierSuggestion(tier, a, idx, range),
                                      TierSuggestion(tier, b, idx + 1, range) >>]
  /\ lastOp' = "entries"
  /\ UNCHANGED << mvars, builtins, symIndex, queryText, position, parse >>

NextProviders ==
  \/ \E pos \in Positions(queryText) : CompletionQuery(pos)
  \/ \E pos \in Positions(queryText) : HoverQuery(pos)
  \/ \E tier \in Tiers, idx \in EntryPositions, a \in EntryNames, b \in EntryNames :
       TopLevelEntries(tier, idx, a, b)

SpecProviders == InitProviders /\ [][NextProviders]_vars

(***************************************************************************)
(* The indexer as a function of the document                               *)
(***************************************************************************)

\* The lines of the documents indexed: assignments of the four categories and
\* annotations of one identifier, an annotation of another one, and a line no
\* rule matches.
IndexLines ==
  { << "x", " ", "=", " ", "[", "]" >>,
    << "x", " ", "=", " ", "\"s\"" >>,
    << "x", ":", " ", "dict" >>,
    << "x", ":", " ", "set" >>,
    << "x", " ", "=", " ", "{", "}" >>,
    << "x", " ", "=", " ", "set", "(", ")" >>,
    << "y", ":", " ", "str" >>,
    << "y", " ", "=", " ", "x" >> }

\* The longest document indexed, in lines.
MaxIndexLines == 3

RECURSIVE JoinLines(_)
\* The text made of the lines, each one ended by a line feed.
JoinLines(ls) ==
  IF ls = << >> THEN << >> ELSE Head(ls) \o << "\n" >> \o JoinLines(Tail(ls))

\* The documents indexed.
IndexDocs ==
  { JoinLines(ls) : ls \in UNION { [1..n -> IndexLines] : n \in 1..MaxIndexLines } }

\* A document that has no index yet.
InitIndexer ==
  /\ ManagerInit
  /\ active = NoModel
  /\ builtins = EmptyCatalog
  /\ queryText \in IndexDocs
  /\ symIndex = EmptyIndex
  /\ position = [lineNumber |-> 1, column |-> 1]
  /\ answer = NoAnswer
  /\ parse = ParserReturned

\* The first query about the document builds its index.
BuildIndex ==
  /\ lastOp = "setup"
  /\ symIndex' = buildSymbolIndex(queryText)
  /\ lastOp' = "index"
  /\ UNCHANGED << mvars, builtins, queryText, position, answer, parse >>

NextIndexer == BuildIndex

SpecIndexer == InitIndexer /\ [][NextIndexer]_vars

(***************************************************************************)
(* The catalog parser, one loop iteration per step                         *)
(***************************************************************************)

\* parseBuiltins is entered with the lines of a reference text.
InitParser ==
  /\ ManagerInit
  /\ active = NoModel
  /\ builtins = EmptyCatalog
  /\ symIndex = EmptyIndex
  /\ queryText = << >>
  /\ position = [lineNumber |-> 1, column |-> 1]
  /\ answer = NoAnswer
  /\ \E ls \in CatalogTexts :
       parse = [lines |-> ls, i |-> 0, currentClass |-> NoClass, classes |-> << >>,
                functions |-> << >>, constants |-> << >>, op |-> "start"]

\* while (i < lines.length) { ... }
ParseIteration ==
  /\ parse.op # "returned"
  /\ parse.i < Len(parse.lines)
  /\ parse' = parseBuiltinsIteration(parse)
  /\ UNCHANGED << mvars, lastOp, builtins, symIndex, queryText, position, answer >>

\* return { classes, functions, constants, classNames }
ParseReturn ==
  /\ parse.op # "returned"
  /\ parse.i >= Len(parse.lines)
  /\ builtins' = [classes |-> parse.classes, functions |-> parse.functions,
                  constants |-> parse.constants]
  /\ parse' = [parse EXCEPT !.op = "returned"]
  /\ UNCHANGED << mvars, lastOp, symIndex, queryText, position, answer >>

NextParser == ParseIteration \/ ParseReturn

SpecParser == InitParser /\ [][NextParser]_vars

(***************************************************************************)
(* Signature help as a function of the catalog, the document and the       *)
(* position                                                                *)
(***************************************************************************)

\* A catalog and a document with its index for signature help to be asked about.
InitSignature ==
  /\ ManagerInit
  /\ active = NoModel
  /\ builtins \in Catalogs
  /\ queryText \in SignatureDocs
  /\ symIndex = buildSymbolIndex(queryText)
  /\ position = [lineNumber |-> 1, column |-> 1]
  /\ answer = NoSignature
  /\ parse = ParserReturned

\* The host asks for the signature help at a position.
SignatureQuery(pos) ==
  /\ lastOp = "setup"
  /\ pos.column \in TokenBoundaries(getLineContent(queryText, pos.lineNumber))
  /\ position' = pos
  /\ answer' = provideSignatureHelp(builtins, symIndex,
                                     getLineContent(queryText, pos.lineNumber),
                                     pos.column)
  /\ lastOp' = "signature"
  /\ UNCHANGED << mvars, builtins, symIndex, queryText, parse >>

NextSignature == \E pos \in Positions(queryText) : SignatureQuery(pos)

SpecSignature == InitSignature /\ [][NextSignature]_vars

(***************************************************************************)
(* Properties of the index manager                                         *)
(***************************************************************************)

ModelOfKey(k) == CHOOSE m \in Models : modelKey(m) = k

QueryOps == { "completion", "signature", "hover" }

C1_OnePendingPerBurst ==
  \A k \in Keys :
    /\ burst[k] >= 1 => Cardinality(PendingFor(k)) = 1
    /\ burst[k] = 0 => PendingFor(k) = {}

C1_RebuildStep ==
  \A t \in timers :
    (lastOp' = "timer" /\ timers' = timers \ { t }) =>
      /\ burst[t.key] >= 1
      /\ lastBurst' = burst[t.key]
      /\ t.id = indexTimers[t.key]
      /\ { u \in timers' : u.key = t.key } = {}
      /\ t.model \notin disposedModels =>
           /\ t.key \in DOMAIN symbolIndexes'
           /\ symbolIndexes'[t.key] = IndexOfDoc[text[t.model]]

\* C1: while the notifications of one document keep arriving before the timer
\* scheduled last has expired, exactly one rebuild is pending for the document
\* however many notifications there were; the rebuild that runs is the one the
\* last notification scheduled, it leaves no other rebuild of the document
\* pending, and it indexes the text the document holds then (every change of
\* the text notifies, so that is the text after the last notification).
C1_DebounceCoalescing == []C1_OnePendingPerBurst /\ [][C1_RebuildStep]_vars

\* A rebuild has just run that answered three or more notifications of a
\* document, which now is indexed at its third or a later text.
C1_Witness ==
  /\ lastOp = "timer"
  /\ lastBurst >= 3
  /\ \E k \in DOMAIN snapshot :
       /\ PendingFor(k) = {}
       /\ snapshot[k] >= 3
       /\ snapshot[k] = text[ModelOfKey(k)]

\* C2: every cached index is the indexer's result on one whole text the
\* document held, the one it held when the last completed build of its key ran.
C2_IndexIsSnapshot ==
  \A k \in DOMAIN symbolIndexes :
    /\ k \in DOMAIN snapshot
    /\ snapshot[k] \in 1..text[ModelOfKey(k)]
    /\ symbolIndexes[k] = IndexOfDoc[snapshot[k]]

\* A document was rebuilt at its second text and has changed since.
C2_Witness ==
  \E m \in Models :
    /\ modelKey(m) \in DOMAIN symbolIndexes
    /\ snapshot[modelKey(m)] = 2
    /\ text[m] = 3
    /\ lastOp = "change"

\* C3 as claimed: a query leaves the cached indexes and the timers as they
\* were, also for a document without a cached index.
C3_QueryChangesNothing ==
  [][lastOp' \in QueryOps =>
       UNCHANGED << symbolIndexes, indexTimers, timers >>]_vars

C3_QueryStep ==
  lastOp' \in QueryOps =>
    /\ UNCHANGED << indexTimers, timers, nextTimerId, subs, text, builtins >>
    /\ \A k \in DOMAIN symbolIndexes :
         k \in DOMAIN symbolIndexes' /\ symbolIndexes'[k] = symbolIndexes[k]
    /\ lastOp' = "hover" => symbolIndexes' = symbolIndexes
    /\ Cardinality(DOMAIN symbolIndexes' \ DOMAIN symbolIndexes) <= 1
    /\ \A k \in DOMAIN symbolIndexes' \ DOMAIN symbolIndexes :
         symbolIndexes'[k] = IndexOfDoc[text[ModelOfKey(k)]]

\* C3, amended: a query never replaces or removes a cached index, never
\* schedules or cancels a timer and never changes the catalog; hover changes
\* nothing; a completion or
\* signature query of a document without a cached index caches the index of
\* the document's current text, and that is the only change a query makes.
C3_QueryKeepsCachedIndexes == [][C3_QueryStep]_vars

\* A completion or signature query has just run and a document that never was
\* the editor's model has a cached index.
C3_Witness ==
  /\ lastOp \in { "completion", "signature" }
  /\ installed
  /\ \E m \in LiveModels : subs[m] = 0 /\ modelKey(m) \in DOMAIN symbolIndexes
  /\ \E m \in LiveModels :
       /\ modelKey(m) \in DOMAIN symbolIndexes
       /\ symbolIndexes[modelKey(m)] # IndexOfDoc[text[m]]

C4_FreshWhenQuiet ==
  \A m \in LiveModels :
    (subs[m] > 0 /\ PendingFor(modelKey(m)) = {}) =>
      /\ modelKey(m) \in DOMAIN symbolIndexes
      /\ symbolIndexes[modelKey(m)] = IndexOfDoc[text[m]]

C4_CaughtUp(m) ==
  \/ m \in disposedModels
  \/ (modelKey(m) \in DOMAIN snapshot /\ snapshot[modelKey(m)] = text[m])

C4_EventuallyIndexed ==
  \A m \in Models : (subs[m] > 0 /\ m \notin disposedModels) ~> C4_CaughtUp(m)

\* C4: a subscribed document with no rebuild pending is indexed at its current
\* text; and, timers being fair, whatever text a subscribed document holds, a
\* state follows in which the last completed build of the document ran on the
\* text it holds then, which is that text or a later one (unless the host
\* disposes the document).
C4_Freshness == []C4_FreshWhenQuiet /\ C4_EventuallyIndexed

\* The debounced rebuild of a subscribed document has just run on its second
\* or a later text.
C4_Witness ==
  /\ lastOp = "timer"
  /\ \E m \in LiveModels :
       /\ subs[m] > 0
       /\ PendingFor(modelKey(m)) = {}
       /\ text[m] >= 2
       /\ modelKey(m) \in DOMAIN snapshot
       /\ snapshot[modelKey(m)] = text[m]

\* C5 as claimed: a rebuild whose build throws leaves the empty index cached
\* for the document.
C5_FailedRebuildGivesEmptyIndex ==
  [][\A t \in timers :
       (lastOp' = "timer" /\ timers' = timers \ { t } /\ t.model \in disposedModels) =>
         /\ t.key \in DOMAIN symbolIndexes'
         /\ symbolIndexes'[t.key] = EmptyIndex]_vars

C6_SwitchStep ==
  (lastOp' = "switch" /\ installed /\ active' # NoModel) =>
    /\ modelKey(active') \in DOMAIN symbolIndexes'
    /\ symbolIndexes'[modelKey(active')] = IndexOfDoc[text[active']]
    /\ subs'[active'] = subs[active'] + 1
    /\ \A m \in Models \ { active' } : subs'[m] = subs[m]
    /\ \A k \in Keys \ { modelKey(active') } :
         /\ k \in DOMAIN symbolIndexes' <=> k \in DOMAIN symbolIndexes
         /\ k \in DOMAIN symbolIndexes => symbolIndexes'[k] = symbolIndexes[k]
    /\ UNCHANGED << timers, indexTimers >>

C6_ChangeStep ==
  \A m \in Models :
    (lastOp' = "change" /\ text'[m] # text[m] /\ subs[m] > 0) =>
      \E u \in timers' :
        u.key = modelKey(m) /\ u.model = m /\ u.id >= nextTimerId

C6_ActiveIsSubscribed ==
  (installed /\ active # NoModel) => subs[active] > 0

\* C6: a switch to a document caches, in the same step, the index of the text
\* the document holds at the switch and adds a content-change subscription to
\* it; it leaves the indexes, timers and subscriptions of the other documents
\* as they were; the editor's document is always subscribed, and every content
\* change of a subscribed document (the active one or an earlier one)
\* schedules a rebuild of it.
C6_SwitchBuildsAndArms ==
  /\ [][C6_SwitchStep]_vars
  /\ [][C6_ChangeStep]_vars
  /\ []C6_ActiveIsSubscribed

\* A switch has just made a document with a second or later text the editor's
\* model while another subscribed document has a rebuild pending.
C6_Witness ==
  /\ lastOp = "switch"
  /\ installed
  /\ active # NoModel
  /\ text[active] >= 2
  /\ symbolIndexes[modelKey(active)] = IndexOfDoc[text[active]]
  /\ \E m \in Models \ { active } :
       subs[m] > 0 /\ PendingFor(modelKey(m)) # {}

(***************************************************************************)
(* Properties of the providers                                             *)
(***************************************************************************)

\* The line the last query was about, and the text before the cursor.
QLine == getLineContent(queryText, position.lineNumber)
QBefore == getValueInRange(QLine, position.column)

\* An ASCII letter in upper case.
UpperUnit(u) == IF u >= 97 /\ u <= 122 THEN u - 32 ELSE u

\* Two names are equal but for the case of their letters.
SameIgnoringCase(a, b) ==
  /\ Len(Spell(a)) = Len(Spell(b))
  /\ \A i \in 1..Len(Spell(a)) : UpperUnit(Spell(a)[i]) = UpperUnit(Spell(b)[i])

\* The first entry of a sequence named like id but for case: its position, in
\* a set that is empty when there is none.
FirstNamed(entries, id) ==
  { p \in 1..Len(entries) :
      /\ SameIgnoringCase(entries[p].name, id)
      /\ \A q \in 1..(p - 1) : ~SameIgnoringCase(entries[q].name, id) }

\* The identifiers id for which toks ends with id "." or id "." partialWord.
MemberAccessOf(toks) ==
  { id \in Identifiers :
      \/ /\ Len(toks) >= 2
         /\ toks[Len(toks)] = "."
         /\ toks[Len(toks) - 1] = id
      \/ /\ Len(toks) >= 3
         /\ toks[Len(toks)] \in Identifiers \cup NumberWords
         /\ toks[Len(toks) - 1] = "."
         /\ toks[Len(toks) - 2] = id }

Labels(items) == [p \in 1..Len(items) |-> items[p].label]
Kinds(items) == [p \in 1..Len(items) |-> items[p].kind]
Preselected(items) == { p \in 1..Len(items) : items[p].preselect }

\* The method names of the three collection types, as the claim lists them.
C7_Methods ==
  [list |-> << "append", "remove", "insert", "pop" >>,
   dict |-> << "pop" >>,
   set |-> << "add", "remove" >>]

\* The labels and kinds of the top-level list: local functions, class names,
\* catalog functions, catalog constants.
TopLevelLabels ==
  [p \in 1..Len(symIndex.functions) |-> symIndex.functions[p].name]
  \o [p \in 1..Len(builtins.classes) |-> builtins.classes[p].name]
  \o [p \in 1..Len(builtins.functions) |-> builtins.functions[p].name]
  \o [p \in 1..Len(builtins.constants) |-> builtins.constants[p].name]

TopLevelKinds ==
  [p \in 1..Len(symIndex.functions) |-> "Function"]
  \o [p \in 1..Len(builtins.classes) |-> "Class"]
  \o [p \in 1..Len(builtins.functions) |-> "Function"]
  \o [p \in 1..Len(builtins.constants) |-> "Constant"]

IsTopLevelList(items) ==
  /\ Labels(items) = TopLevelLabels
  /\ Kinds(items) = TopLevelKinds
  /\ Preselected(items) = {}

IsCollection(id) ==
  id \in DOMAIN symIndex.vars /\ symIndex.vars[id] \in { "list", "dict", "set" }

\* C7: a completion query whose text before the cursor ends with
\* identifier "." partialWord returns, when the index binds the identifier to
\* list, dict or set, exactly the methods of that type in their declared order
\* with the first one and no other preselected, whether or not a catalog class
\* is named like the identifier; otherwise, when a catalog class is named like
\* the identifier but for case, the members of (the first such) class in
\* catalog order, each with its documentation if it has one, the first one and
\* no other preselected; otherwise the top-level list.
C7_MemberBranch ==
  lastOp = "completion" =>
    \A id \in MemberAccessOf(QBefore) :
      IF IsCollection(id)
      THEN /\ Labels(answer.suggestions) = C7_Methods[symIndex.vars[id]]
           /\ \A p \in 1..Len(answer.suggestions) :
                answer.suggestions[p].kind = "Method"
           /\ Preselected(answer.suggestions) = { 1 }
      ELSE IF FirstNamed(builtins.classes, id) # {}
      THEN \A c \in FirstNamed(builtins.classes, id) :
             LET members == builtins.classes[c].members
             IN /\ Labels(answer.suggestions) =
                     [p \in 1..Len(members) |-> members[p].name]
                /\ \A p \in 1..Len(members) :
                     /\ answer.suggestions[p].kind = "EnumMember"
                     /\ answer.suggestions[p].documentation =
                          IF members[p].doc \in { Undefined, "" } THEN Undefined
                          ELSE members[p].doc
                /\ Preselected(answer.suggestions) = { 1 } \cap (1..Len(members))
      ELSE IsTopLevelList(answer.suggestions)

\* Completion after `vector.` answered with the set methods although the
\* catalog has the class Vector; the identifier is bound to set in the index.
C7_Witness ==
  /\ lastOp = "completion"
  /\ "vector" \in MemberAccessOf(QBefore)
  /\ IsCollection("vector")
  /\ symIndex.vars["vector"] = "set"
  /\ FirstNamed(builtins.classes, "vector") # {}
  /\ Labels(answer.suggestions) = << "add", "remove" >>
  /\ answer.suggestions[1].preselect /\ ~answer.suggestions[2].preselect

\* Character-wise lexicographic order of two strings of code units.
LexLess(a, b) ==
  \E k \in 1..(Len(a) + 1) :
    /\ k <= Len(b)
    /\ \A j \in 1..(k - 1) : a[j] = b[j]
    /\ (k = Len(a) + 1 \/ a[k] < b[k])

\* The top-level branch is taken: the text before the cursor, without its
\* trailing white space, is no member access, or it is one whose identifier is
\* neither a collection of the index nor a class of the catalog.
TopLevelCase ==
  \A id \in MemberAccessOf(TrimEnd(QBefore)) :
    ~IsCollection(id) /\ FirstNamed(builtins.classes, id) = {}

\* C8 as claimed: the top-level list is the local functions, the class names,
\* the catalog functions and the catalog constants in this order, each tier in
\* its declaration order, and the sort keys strictly increase along the list:
\* from each item to the next one, also between the entries idx and idx + 1
\* of a tier however many entries the tier has.
C8_TopLevelOrderAndKeys ==
  /\ (lastOp = "completion" /\ TopLevelCase) =>
       /\ IsTopLevelList(answer.suggestions)
       /\ \A p \in 1..(Len(answer.suggestions) - 1) :
            LexLess(answer.suggestions[p].sortText,
                    answer.suggestions[p + 1].sortText)
  /\ lastOp = "entries" =>
       LexLess(answer.suggestions[1].sortText, answer.suggestions[2].sortText)

RECURSIVE IsDottedMatch(_, _)
\* Token i of the line starts a match of the scan for identifier "."
\* identifier: the three tokens have that shape and do not overlap an earlier
\* match.
IsDottedMatch(line, i) ==
  /\ i >= 1 /\ i + 2 <= Len(line)
  /\ line[i] \in Identifiers /\ line[i + 1] = "." /\ line[i + 2] \in Identifiers
  /\ ~IsDottedMatch(line, i - 2)

\* The dotted tokens of the queried line whose span covers the cursor.
CoveringDotted ==
  { i \in 1..Len(QLine) :
      /\ IsDottedMatch(QLine, i)
      /\ ColumnOf(QLine, i) <= position.column
      /\ position.column <= ColumnOf(QLine, i + 3) }

\* The contents of a hover: a head line, then the documentation if any.
HoverContents(head, doc) ==
  IF doc \in { Undefined, "" } THEN << head >> ELSE << head, doc >>

\* C9: hover on a dotted token whose span covers the cursor and whose left
\* side names a catalog class but for case (the first such class): when the
\* right side names a member of the class but for case (the first such
\* member), the answer is the catalog's spelling of class "." member followed
\* by the member's documentation if it has one, over the span of the token,
\* whatever the case typed; when it names no member, the answer is no hover.
C9_DottedHover ==
  lastOp = "hover" =>
    \A i \in CoveringDotted :
      \A c \in FirstNamed(builtins.classes, QLine[i]) :
        LET cls == builtins.classes[c]
        IN IF FirstNamed(cls.members, QLine[i + 2]) = {}
           THEN answer.isNull
           ELSE \A m \in FirstNamed(cls.members, QLine[i + 2]) :
                  /\ ~answer.isNull
                  /\ answer.contents =
                       HoverContents(cls.name \o "." \o cls.members[m].name,
                                     cls.members[m].doc)
                  /\ answer.range.startColumn = ColumnOf(QLine, i)
                  /\ answer.range.endColumn = ColumnOf(QLine, i + 3)

\* Hover on VECTOR.Length, with the class Vector and its member length in the
\* catalog, answered Vector.length and the member's documentation.
C9_Witness ==
  /\ lastOp = "hover"
  /\ builtins = VectorCatalog
  /\ \E i \in CoveringDotted : QLine[i] = "VECTOR" /\ QLine[i + 2] = "Length"
  /\ ~answer.isNull
  /\ answer.contents = << "Vector.length", "Euclidean length" >>

\* The cursor is on a dotted token that resolves to a member of a catalog
\* class.
OnClassMember ==
  \E i \in CoveringDotted :
    \E c \in FirstNamed(builtins.classes, QLine[i]) :
      FirstNamed(builtins.classes[c].members, QLine[i + 2]) # {}

\* C10 as claimed: when the cursor is not on a dotted token that resolves to
\* a member of a catalog class, hover answers for the word under the cursor:
\* the function named like it but for case, else the constant named like it,
\* and no hover only when there is no word or it names neither.
C10_HoverFallsBackToWord ==
  (lastOp = "hover" /\ ~OnClassMember) =>
    LET word == getWordAtPosition(QLine, position.column)
    IN IF word.found /\ FirstNamed(builtins.functions, word.word) # {}
       THEN \A f \in FirstNamed(builtins.functions, word.word) :
              /\ ~answer.isNull
              /\ answer.contents =
                   HoverContents(word.word \o "()", builtins.functions[f].doc)
       ELSE IF word.found /\ FirstNamed(builtins.constants, word.word) # {}
       THEN \A k \in FirstNamed(builtins.constants, word.word) :
              /\ ~answer.isNull
              /\ answer.contents =
                   HoverContents(word.word, builtins.constants[k].doc)
       ELSE answer.isNull

(***************************************************************************)
(* Properties of the timers and of the disposer                            *)
(***************************************************************************)

C14_AtMostOnePending ==
  \A k \in Keys : Cardinality(PendingFor(k)) <= 1

C14_RebuildAnswersChange ==
  \A t \in timers :
    (lastOp' = "timer" /\ timers' = timers \ { t }) =>
      /\ burst[t.key] >= 1
      /\ \A u \in timers' : u.key # t.key

C14_ChangeStep ==
  \A m \in Models :
    (lastOp' = "change" /\ text'[m] # text[m]) =>
      Cardinality({ u \in timers' : u.key = modelKey(m) }) =
        IF subs[m] > 0 THEN 1 ELSE Cardinality(PendingFor(modelKey(m)))

\* C14: in every state at most one rebuild timer is pending for a document
\* key; a content change of a document that carries one or several
\* subscriptions leaves exactly one timer pending for it; and every rebuild
\* that runs answers at least one content change made since the previous
\* rebuild of the document and leaves no rebuild of the document pending, so
\* that one content change never results in two rebuilds.
C14_OneTimerPerKey ==
  /\ []C14_AtMostOnePending
  /\ [][C14_RebuildAnswersChange]_vars
  /\ [][C14_ChangeStep]_vars

\* A document that carries two subscriptions has just changed: both listeners
\* ran and one timer is pending for it.
C14_Witness ==
  /\ lastOp = "change"
  /\ \E m \in LiveModels :
       /\ subs[m] = 2
       /\ burst[modelKey(m)] >= 2
       /\ Cardinality(PendingFor(modelKey(m))) = 1

\* C16 as claimed: once the disposer has run, no timer is scheduled and no
\* rebuild runs any more, also not the rebuild of a timer that was pending
\* when the disposer ran.
C16_NoRebuildAfterDispose ==
  [][~installed => (timers' \subseteq timers /\ lastOp' # "timer")]_vars

(***************************************************************************)
(* Properties of signature help                                            *)
(***************************************************************************)

\* The last query was answered with a signature.
Resolved == lastOp = "signature" /\ ~answer.isNull /\ ~answer.threw

\* The commas of the text before the cursor that no "(" follows.
CommasAfterLastOpen ==
  Cardinality({ p \in 1..Len(QBefore) :
                  /\ QBefore[p] = ","
                  /\ \A q \in p..Len(QBefore) : QBefore[q] # "(" })

\* C11: every signature returned, by the method branch or by the bare-call
\* branch, with p parameters and c commas after the last opening parenthesis of
\* the text before the cursor, has the active parameter min(c, p - 1) when
\* p >= 1 and 0 when p = 0: never negative and, when p >= 1, below p.
C11_ActiveParameter ==
  Resolved =>
    LET p == Len(answer.parameters)
        c == CommasAfterLastOpen
    IN /\ answer.activeSignature = 0
       /\ answer.activeParameter =
            IF p = 0 THEN 0 ELSE IF c <= p - 1 THEN c ELSE p - 1
       /\ answer.activeParameter >= 0
       /\ p >= 1 => answer.activeParameter < p

\* A call of three parameters with a fourth argument being typed: the third
\* parameter stays active.
C11_Witness ==
  /\ Resolved
  /\ Len(answer.parameters) = 3
  /\ CommasAfterLastOpen = 3
  /\ answer.activeParameter = 2

\* The open calls the text before the cursor ends in: the position of a "("
\* that no parenthesis follows (there is at most one).
OpenCalls ==
  { o \in 1..Len(QBefore) :
      /\ QBefore[o] = "("
      /\ \A q \in (o + 1)..Len(QBefore) : QBefore[q] \notin { "(", ")" } }

\* The position of the token before the "(" at o, white space skipped; 0 when
\* there is none.
CalleeAt(o) ==
  LET ks == { k \in 1..(o - 1) :
                /\ ~IsWs(QBefore[k])
                /\ \A q \in (k + 1)..(o - 1) : IsWs(QBefore[q]) }
  IN IF ks = {} THEN 0 ELSE CHOOSE k \in ks : TRUE

\* A signature made of a label, parameters and a documentation.
IsSignature(label, params, doc) ==
  /\ ~answer.isNull
  /\ ~answer.threw
  /\ answer.label = label
  /\ answer.parameters = params
  /\ answer.documentation = IF Truthy(doc) THEN doc ELSE Undefined

\* The call identifier.method( at the callee k is answered by the method table.
IsMethodCall(k) ==
  /\ k >= 3
  /\ IsIdent(QBefore[k])
  /\ QBefore[k - 1] = "."
  /\ IsCollection(IdentSuffix(QBefore[k - 2]))
  /\ FirstNamed(METHOD_METADATA[symIndex.vars[IdentSuffix(QBefore[k - 2])]],
                QBefore[k]) # {}

\* C12 as claimed: a call identifier.method( is answered from the method table
\* when the identifier's indexed type is list, dict or set and the type has the
\* method; every other call is a bare call of the name before the parenthesis,
\* answered by the catalog function of that name (but for case) with its
\* signature label, parameters and doc, else by the document's function of that
\* name, and by null exactly when there is neither.
C12_ResolutionOrder ==
  lastOp = "signature" =>
    \A o \in OpenCalls :
      LET k == CalleeAt(o)
          name == IF k = 0 THEN "" ELSE IdentSuffix(QBefore[k])
          methods == METHOD_METADATA[symIndex.vars[IdentSuffix(QBefore[k - 2])]]
          locals == { p \in 1..Len(symIndex.functions) :
                        symIndex.functions[p].name = name }
      IN IF k # 0 /\ IsMethodCall(k)
         THEN \A p \in FirstNamed(methods, QBefore[k]) :
                IsSignature(methods[p].label, methods[p].params, methods[p].doc)
         ELSE IF name # "" /\ FirstNamed(builtins.functions, name) # {}
         THEN \A p \in FirstNamed(builtins.functions, name) :
                IsSignature(builtins.functions[p].signatureLabel,
                            builtins.functions[p].params, builtins.functions[p].doc)
         ELSE IF locals # {}
         THEN \A p \in locals :
                IsSignature(symIndex.functions[p].label, symIndex.functions[p].params,
                            Undefined)
         ELSE answer.isNull

(***************************************************************************)
(* Properties of the indexer                                               *)
(***************************************************************************)

\* The assignment categories in the order of the claim, lowest first, and the
\* expressions of each.
C13_Order == << "list", "dict", "set", "str" >>

C13_Rules ==
  [list |-> { "listEmpty", "listLit", "listCall" },
   dict |-> { "dictEmpty", "dictLit", "dictCall" },
   set |-> { "setCall" },
   str |-> { "strLit", "strCall" }]

\* The identifiers an expression matches in the document.
MatchedBy(re) ==
  LET ms == ExecAll(re, queryText, 1) IN { ms[p].name : p \in 1..Len(ms) }

\* The assignment categories in which an identifier has a match.
CategoriesOf(id) ==
  { r \in 1..Len(C13_Order) : \E re \in C13_Rules[C13_Order[r]] : id \in MatchedBy(re) }

\* The annotations of an identifier, in text order.
AnnotationsOf(id) ==
  SelectSeq(ExecAll("annotation", queryText, 1), LAMBDA m : m.name = id)

C15_Iteration == parse' # parse /\ parse'.op # "returned"

\* The line index never decreases and never passes the number of lines.
C15_IndexMonotone == parse'.i >= parse.i /\ parse'.i <= Len(parse.lines)

\* An iteration leaves the index unchanged only when a non-indented line
\* closes the class scope, and the iteration after such a one increases it.
C15_StallIsFollowedByProgress ==
  C15_Iteration =>
    /\ parse'.i = parse.i =>
         /\ parse.currentClass # NoClass
         /\ parse'.currentClass = NoClass
         /\ ~IsWs(parse.lines[parse.i + 1][1])
         /\ parse'.op = "close"
    /\ parse.op = "close" => parse'.i > parse.i

\* What is left to do: twice the lines not yet passed, plus one in a class scope.
C15_Measure(p) ==
  2 * (Len(p.lines) - p.i) + (IF p.currentClass # NoClass THEN 1 ELSE 0)

\* Every iteration makes the measure smaller.
C15_MeasureDecreases == C15_Iteration => C15_Measure(parse') < C15_Measure(parse)

\* readDocString returns a next index between its start index and the number
\* of lines, whatever line it is started at and whatever the indentation asked.
C15_DocStringBounds ==
  \A startIndex \in 0..Len(parse.lines), minIndent \in { 0, 4 } :
    /\ readDocString(parse.lines, startIndex, minIndent).next >= startIndex
    /\ readDocString(parse.lines, startIndex, minIndent).next <= Len(parse.lines)

\* C15: parseBuiltins terminates on every text: the line index of its main
\* loop never decreases, an iteration that leaves it unchanged closes the class
\* scope and is followed at once by one that increases it, every iteration
\* decreases a measure that is never negative, and readDocString returns an
\* index between its start and the number of lines, also when the docstring
\* is never closed.
C15_ParserTerminates ==
  /\ [](C15_DocStringBounds /\ C15_Measure(parse) >= 0)
  /\ [][C15_IndexMonotone]_vars
  /\ [][C15_StallIsFollowedByProgress]_vars
  /\ [][C15_MeasureDecreases]_vars

\* A function declared on the non-indented line that closes a class scope,
\* followed by a docstring that is never closed: the parser has returned with
\* the function and with the index at the number of lines.
C15_Witness ==
  /\ parse.op = "returned"
  /\ parse.lines = << << "class", " ", "Vector", ":" >>,
                      << "def", " ", "f", "(", "a", ",", " ", "b", ")", " ",
                         "-", ">", " ", "str", ":" >>,
                      << "\"\"\"", "a" >> >>
  /\ parse.i = 3
  /\ Len(builtins.functions) = 1
  /\ builtins.functions[1].name = "f"
====
